---- MODULE Spec2Model ----
(***************************************************************************)
(* Protobuf container files of kudu/util/pb_util.cc: the container header, *)
(* the length + payload + CRC32C record frame, the sequential validated    *)
(* reader, and the temp-file / rename write protocol.                      *)
(*                                                                         *)
(* Files are sequences of bytes (0..255).  Integers keep their width: a    *)
(* fixed32 is four little-endian bytes, a CRC is a 32-bit value.           *)
(***************************************************************************)
EXTENDS Integers, Sequences, FiniteSets, TLC

(***************************************************************************)
(* Bounds of the model.                                                    *)
(***************************************************************************)
\* Appends a Writable Container accepts before the model stops it.
MaxRecords == 2
\* ReadNextPB calls made after the last record of the written container.
MaxExtraReads == 2
\* Failures the environment (file system) injects in one behaviour.
MaxFaults == 1
\* Flush and Sync calls made on one Writable Container.
MaxSyncs == 1

(***************************************************************************)
(* Container constants.                                                    *)
(***************************************************************************)
kPBContainerVersion == 1
kPBContainerMagicLen == 8
\* sizeof(uint32_t)
kFixed32Len == 4
kPBContainerHeaderLen == kPBContainerMagicLen + kFixed32Len
kPBContainerChecksumLen == 4

(***************************************************************************)
(* Sequence helpers.                                                       *)
(***************************************************************************)
Take(s, n) == SubSeq(s, 1, n)
Drop(s, n) == SubSeq(s, n + 1, Len(s))
Slice(s, off, n) == SubSeq(s, off + 1, off + n)

(***************************************************************************)
(* A uint32_t is kept as its two 16-bit halves, so that no value exceeds   *)
(* what the checker's integers hold: the value is hi * 65536 + lo.         *)
(***************************************************************************)
U32(hi, lo) == [hi |-> hi, lo |-> lo]
\* static_cast<uint32_t> of a small non-negative int.
ToU32(n) == U32(n \div 65536, n % 65536)

(***************************************************************************)
(* Fixed-width little-endian integers (kudu/util/coding).                  *)
(***************************************************************************)
InlineEncodeFixed32(v) ==
    << v.lo % 256, v.lo \div 256, v.hi % 256, v.hi \div 256 >>

DecodeFixed32(b) == U32(b[3] + 256 * b[4], b[1] + 256 * b[2])

(***************************************************************************)
(* CRC32C (Castagnoli, reflected polynomial 0x82F63B78), bit by bit.       *)
(* Compute(data, crc) continues a running checksum, as Crc::Compute does:  *)
(* the register is the complement of the value passed between calls.       *)
(***************************************************************************)
RECURSIVE Xor(_, _)
Xor(a, b) ==
    IF a = 0 THEN b
    ELSE IF b = 0 THEN a
    ELSE ((a + b) % 2) + 2 * Xor(a \div 2, b \div 2)

\* 0x82F6 and 0x3B78
kCrc32cPolyHi == 33526
kCrc32cPolyLo == 15224

\* One step of the reflected shift register.
CrcStep(c) ==
    LET sh == U32(c.hi \div 2, (c.lo \div 2) + 32768 * (c.hi % 2))
    IN  IF c.lo % 2 = 1
        THEN U32(Xor(sh.hi, kCrc32cPolyHi), Xor(sh.lo, kCrc32cPolyLo))
        ELSE sh

\* The register after the eight steps that absorb one byte.
CrcByte(c, byte) ==
    CrcStep(CrcStep(CrcStep(CrcStep(CrcStep(CrcStep(CrcStep(CrcStep(
        U32(c.hi, Xor(c.lo, byte))))))))))

\* The register after data[i..Len(data)].  (The test on the new register
\* only makes the checker compute it before it goes on.)
RECURSIVE CrcBytes(_, _, _)
CrcBytes(data, i, c) ==
    IF i > Len(data) THEN c
    ELSE LET n == CrcByte(c, data[i])
         IN  IF n.lo >= 0 THEN CrcBytes(data, i + 1, n) ELSE n

Complement(c) == U32(65535 - c.hi, 65535 - c.lo)

Compute(data, crc) == Complement(CrcBytes(data, 1, Complement(crc)))

Crc32c(data) == Compute(data, U32(0, 0))

(***************************************************************************)
(* The message collaborator: a protobuf message with one optional uint32   *)
(* field, number 1.  Its wire form is the tag byte 0x08 followed by the    *)
(* base-128 varint of the value; an unset field encodes to nothing.        *)
(***************************************************************************)
EmptyMsg == [has |-> FALSE, x |-> 0]
MsgOf(v) == [has |-> TRUE, x |-> v]
FieldValues == {1, 200}
Messages == {EmptyMsg} \cup {MsgOf(v) : v \in FieldValues}

RECURSIVE Varint(_)
Varint(v) ==
    IF v < 128 THEN << v >> ELSE << 128 + (v % 128) >> \o Varint(v \div 128)

kFieldTag == 8

\* MessageLite::SerializeWithCachedSizesToArray: the bytes the encoder produces.
Serialize(m) == IF m.has THEN << kFieldTag >> \o Varint(m.x) ELSE << >>

\* MessageLite::ByteSize.
ByteSize(m) == Len(Serialize(m))

\* Reads one varint at the head of b: [ok, v, n] with n the bytes consumed.
RECURSIVE ReadVarint(_)
ReadVarint(b) ==
    IF b = << >> THEN [ok |-> FALSE, v |-> 0, n |-> 0]
    ELSE IF Head(b) < 128 THEN [ok |-> TRUE, v |-> Head(b), n |-> 1]
    ELSE LET r == ReadVarint(Tail(b))
         IN  [ok |-> r.ok, v |-> (Head(b) - 128) + 128 * r.v, n |-> r.n + 1]

\* MessageLite::ParseFromArray: clears the message, then merges the fields
\* found; a later occurrence of the field replaces an earlier one.  The
\* message of a failed parse holds what was merged before the failure.
RECURSIVE MergeFrom(_, _)
MergeFrom(b, m) ==
    IF b = << >> THEN [ok |-> TRUE, msg |-> m]
    ELSE IF Head(b) # kFieldTag THEN [ok |-> FALSE, msg |-> m]
    ELSE LET r == ReadVarint(Tail(b))
         IN  IF ~r.ok \/ r.n > 5 THEN [ok |-> FALSE, msg |-> m]
             ELSE MergeFrom(Drop(b, 1 + r.n), MsgOf(r.v))

Parse(b) == MergeFrom(b, EmptyMsg)

(***************************************************************************)
(* The environment's answer to one file-system call.  "ok" is success;     *)
(* "size_err" fails RandomAccessFile::Size, "read_err" fails Read, "short" *)
(* makes Read return fewer bytes than asked; "fail" fails a write-side     *)
(* call (Append, Flush, Sync, Close, Rename, ...).                         *)
(***************************************************************************)
EnvOk == "ok"
ReadEnvs == {"ok", "size_err", "read_err", "short"}
WriteEnvs == {"ok", "fail"}

kMagic == << 107, 117, 100, 117, 107, 117, 100, 117 >>   \* "kudukudu"
kOtherMagic == << 107, 117, 100, 117, 116, 101, 115, 116 >>   \* "kudutest"
Magics == {kMagic, kOtherMagic}

\* Values an uninitialised buffer byte may hold.
JunkBytes == {0, 255}

\* A header that leaves the version field out.
InitBufNoVersion(magic) == Take(magic, kPBContainerMagicLen)

(***************************************************************************)
(* WritablePBContainerFile::Init: the buffer handed to writer_->Append.    *)
(***************************************************************************)
InitBuf(magic) ==
    Take(magic, kPBContainerMagicLen) \o InlineEncodeFixed32(ToU32(kPBContainerVersion))

(***************************************************************************)
(* WritablePBContainerFile::Append: the buffer handed to writer_->Append.  *)
(* sizeMsg is the message as ByteSize() saw it and encMsg the message as   *)
(* the serializer saw it: they differ only when another thread modifies    *)
(* the message during the call.  The buffer is sized from data_size; the   *)
(* serializer writes what it produces after the length; the checksum is    *)
(* then computed over, and stored after, the first 4 + data_size bytes.    *)
(* A byte the serializer did not write keeps the buffer's junk.            *)
(***************************************************************************)
AppendBody(sizeMsg, encMsg, junk) ==
    LET data_size == ByteSize(sizeMsg)
        produced  == Serialize(encMsg)
    IN  [i \in 1..data_size |-> IF i <= Len(produced) THEN produced[i] ELSE junk]

\* A frame whose checksum covers the payload and not the length bytes.
AppendBufCrcOverBody(sizeMsg, encMsg, junk) ==
    LET data_size == ByteSize(sizeMsg)
        body == AppendBody(sizeMsg, encMsg, junk)
    IN  InlineEncodeFixed32(ToU32(data_size)) \o body \o InlineEncodeFixed32(Crc32c(body))

AppendBuf(sizeMsg, encMsg, junk) ==
    LET data_size == ByteSize(sizeMsg)
        head == InlineEncodeFixed32(ToU32(data_size)) \o AppendBody(sizeMsg, encMsg, junk)
        checksum == Crc32c(head)
    IN  head \o InlineEncodeFixed32(checksum)

(***************************************************************************)
(* ReadablePBContainerFile::ValidateAndRead on a file holding `content`,   *)
(* with the cursor at `off`.  Returns the status, the bytes read and the   *)
(* cursor after the call.  `length` is a size_t given as a U32.            *)
(***************************************************************************)
EOF_OK == "EOF_OK"
EOF_NOT_OK == "EOF_NOT_OK"

\* An off-by-one size check: a read that ends exactly at the end is refused.
PastEndInclusive(off, length, file_size) ==
    length.hi > 0 \/ off + length.lo >= file_size

\* A size check that forgets the cursor: length > file_size.
PastEndFromStart(off, length, file_size) ==
    length.hi > 0 \/ length.lo > file_size

\* offset_ + length > file_size
PastEnd(off, length, file_size) ==
    length.hi > 0 \/ off + length.lo > file_size

\* A bounded read that advances the cursor before the short-read check.
ValidateAndReadEager(content, off, length, eofOK, env) ==
    IF env = "size_err"
    THEN [st |-> "IOError", data |-> << >>, off |-> off, read |-> FALSE]
    ELSE IF PastEnd(off, length, Len(content))
    THEN [st |-> IF eofOK = EOF_OK THEN "EndOfFile" ELSE "Corruption",
          data |-> << >>, off |-> off, read |-> FALSE]
    ELSE IF env = "read_err"
    THEN [st |-> "IOError", data |-> << >>, off |-> off, read |-> TRUE]
    ELSE IF (env = "short" /\ length.lo > 0) \/ off + length.lo > Len(content)
    THEN [st |-> "Corruption", data |-> << >>, off |-> off + length.lo - 1, read |-> TRUE]
    ELSE [st |-> "OK", data |-> Slice(content, off, length.lo), off |-> off + length.lo,
          read |-> TRUE]

\* [st, data, off, read]: read tells whether reader_->Read was called.  A
\* Read whose range ends past the end of the file returns fewer bytes than
\* asked for.
ValidateAndRead(content, off, length, eofOK, env) ==
    IF env = "size_err"
    THEN [st |-> "IOError", data |-> << >>, off |-> off, read |-> FALSE]
    ELSE IF PastEnd(off, length, Len(content))
    THEN [st |-> IF eofOK = EOF_OK THEN "EndOfFile" ELSE "Corruption",
          data |-> << >>, off |-> off, read |-> FALSE]
    ELSE IF env = "read_err"
    THEN [st |-> "IOError", data |-> << >>, off |-> off, read |-> TRUE]
    ELSE IF (env = "short" /\ length.lo > 0) \/ off + length.lo > Len(content)
    THEN [st |-> "Corruption", data |-> << >>, off |-> off, read |-> TRUE]
    ELSE [st |-> "OK", data |-> Slice(content, off, length.lo), off |-> off + length.lo,
          read |-> TRUE]

\* What one bounded read did, for the reader's log: the part of the file it
\* was for, the cursor before, the length asked for, the file size, the
\* status, whether reader_->Read was called, and the cursor after.
Bounded(what, content, at, length, r) ==
    [what |-> what, at |-> at, len |-> length, size |-> Len(content),
     st |-> r.st, read |-> r.read, to |-> r.off]

\* Whether the environment can give the answer `env` to this bounded read:
\* Read is only called when the size check passed, and a short read returns
\* fewer bytes than a positive number asked for.
EnvPossible(content, off, length, env) ==
    \/ env \in {EnvOk, "size_err"}
    \/ env = "read_err" /\ ~PastEnd(off, length, Len(content))
    \/ env = "short" /\ ~PastEnd(off, length, Len(content)) /\ length.lo > 0

\* An Init that validates the version before the magic number.
ReaderInitVersionFirst(content, off, magic, env) ==
    LET r == ValidateAndRead(content, off, ToU32(kPBContainerHeaderLen), EOF_NOT_OK, env)
        io == << Bounded("header", content, off, ToU32(kPBContainerHeaderLen), r) >>
    IN  IF r.st # "OK" THEN [st |-> r.st, off |-> r.off, io |-> io]
        ELSE IF DecodeFixed32(Drop(r.data, kPBContainerMagicLen)) # ToU32(kPBContainerVersion)
        THEN [st |-> "NotSupported", off |-> r.off, io |-> io]
        ELSE IF Take(r.data, kPBContainerMagicLen) # Take(magic, kPBContainerMagicLen)
        THEN [st |-> "Corruption", off |-> r.off, io |-> io]
        ELSE [st |-> "OK", off |-> r.off, io |-> io]

\* An Init that reads the header with EOF_OK.
ReaderInitEofOk(content, off, magic, env) ==
    LET r == ValidateAndRead(content, off, ToU32(kPBContainerHeaderLen), EOF_OK, env)
        io == << Bounded("header", content, off, ToU32(kPBContainerHeaderLen), r) >>
    IN  IF r.st # "OK" THEN [st |-> r.st, off |-> r.off, io |-> io]
        ELSE IF Take(r.data, kPBContainerMagicLen) # Take(magic, kPBContainerMagicLen)
        THEN [st |-> "Corruption", off |-> r.off, io |-> io]
        ELSE IF DecodeFixed32(Drop(r.data, kPBContainerMagicLen)) # ToU32(kPBContainerVersion)
        THEN [st |-> "NotSupported", off |-> r.off, io |-> io]
        ELSE [st |-> "OK", off |-> r.off, io |-> io]

(***************************************************************************)
(* ReadablePBContainerFile::Init: [st, off, io], io being the log of the   *)
(* bounded read made.                                                      *)
(***************************************************************************)
ReaderInit(content, off, magic, env) ==
    LET r == ValidateAndRead(content, off, ToU32(kPBContainerHeaderLen), EOF_NOT_OK, env)
        io == << Bounded("header", content, off, ToU32(kPBContainerHeaderLen), r) >>
    IN  IF r.st # "OK" THEN [st |-> r.st, off |-> r.off, io |-> io]
        ELSE IF Take(r.data, kPBContainerMagicLen) # Take(magic, kPBContainerMagicLen)
        THEN [st |-> "Corruption", off |-> r.off, io |-> io]
        ELSE IF DecodeFixed32(Drop(r.data, kPBContainerMagicLen)) # ToU32(kPBContainerVersion)
        THEN [st |-> "NotSupported", off |-> r.off, io |-> io]
        ELSE [st |-> "OK", off |-> r.off, io |-> io]

(***************************************************************************)
(* ReadablePBContainerFile::ReadNextPB: [st, off, msg, calls], msg being   *)
(* the caller's message after the call and calls the number of bounded     *)
(* reads made.  envs are the environment's answers to the bounded reads.   *)
(***************************************************************************)
ChecksumOf(size, body) == Compute(body, Compute(size, U32(0, 0)))

\* A comparison of the low 16 bits only.
ChecksumMismatchLow16(actual, expected) == actual.lo # expected.lo

\* actual_checksum != expected_checksum
ChecksumMismatch(actual, expected) == actual # expected

\* A ReadNextPB that decodes the body before it compares the checksums.
ReadNextDecodeFirst(content, off, msg, envs) ==
    LET r1 == ValidateAndRead(content, off, ToU32(kFixed32Len), EOF_OK, envs[1])
        data_size == DecodeFixed32(r1.data)
        r2 == ValidateAndRead(content, r1.off, data_size, EOF_NOT_OK, envs[2])
        r3 == ValidateAndRead(content, r2.off, ToU32(kPBContainerChecksumLen),
                              EOF_NOT_OK, envs[3])
        expected_checksum == DecodeFixed32(r3.data)
        actual_checksum == ChecksumOf(r1.data, r2.data)
        parsed == Parse(r2.data)
        io1 == << Bounded("size", content, off, ToU32(kFixed32Len), r1) >>
        io2 == Append(io1, Bounded("body", content, r1.off, data_size, r2))
        io3 == Append(io2, Bounded("checksum", content, r2.off,
                                   ToU32(kPBContainerChecksumLen), r3))
    IN  IF r1.st # "OK"
        THEN [st |-> r1.st, off |-> r1.off, msg |-> msg, calls |-> 1, io |-> io1,
              decoded |-> FALSE]
        ELSE IF r2.st # "OK"
        THEN [st |-> r2.st, off |-> r2.off, msg |-> msg, calls |-> 2, io |-> io2,
              decoded |-> FALSE]
        ELSE IF r3.st # "OK"
        THEN [st |-> r3.st, off |-> r3.off, msg |-> msg, calls |-> 3, io |-> io3,
              decoded |-> FALSE]
        ELSE IF ~parsed.ok
        THEN [st |-> "IOError", off |-> r3.off, msg |-> parsed.msg, calls |-> 3, io |-> io3,
              decoded |-> TRUE]
        ELSE IF ChecksumMismatch(actual_checksum, expected_checksum)
        THEN [st |-> "Corruption", off |-> r3.off, msg |-> parsed.msg, calls |-> 3, io |-> io3,
              decoded |-> TRUE]
        ELSE [st |-> "OK", off |-> r3.off, msg |-> parsed.msg, calls |-> 3, io |-> io3,
              decoded |-> TRUE]

\* io is the log of the bounded reads made, decoded tells whether
\* msg->ParseFromArray was called.
ReadNext(content, off, msg, envs) ==
    LET r1 == ValidateAndRead(content, off, ToU32(kFixed32Len), EOF_OK, envs[1])
        data_size == DecodeFixed32(r1.data)
        r2 == ValidateAndRead(content, r1.off, data_size, EOF_NOT_OK, envs[2])
        r3 == ValidateAndRead(content, r2.off, ToU32(kPBContainerChecksumLen),
                              EOF_NOT_OK, envs[3])
        expected_checksum == DecodeFixed32(r3.data)
        actual_checksum == ChecksumOf(r1.data, r2.data)
        parsed == Parse(r2.data)
        io1 == << Bounded("size", content, off, ToU32(kFixed32Len), r1) >>
        io2 == Append(io1, Bounded("body", content, r1.off, data_size, r2))
        io3 == Append(io2, Bounded("checksum", content, r2.off,
                                   ToU32(kPBContainerChecksumLen), r3))
    IN  IF r1.st # "OK"
        THEN [st |-> r1.st, off |-> r1.off, msg |-> msg, calls |-> 1, io |-> io1,
              decoded |-> FALSE]
        ELSE IF r2.st # "OK"
        THEN [st |-> r2.st, off |-> r2.off, msg |-> msg, calls |-> 2, io |-> io2,
              decoded |-> FALSE]
        ELSE IF r3.st # "OK"
        THEN [st |-> r3.st, off |-> r3.off, msg |-> msg, calls |-> 3, io |-> io3,
              decoded |-> FALSE]
        ELSE IF ChecksumMismatch(actual_checksum, expected_checksum)
        THEN [st |-> "Corruption", off |-> r3.off, msg |-> msg, calls |-> 3, io |-> io3,
              decoded |-> FALSE]
        ELSE IF ~parsed.ok
        THEN [st |-> "IOError", off |-> r3.off, msg |-> parsed.msg, calls |-> 3, io |-> io3,
              decoded |-> TRUE]
        ELSE [st |-> "OK", off |-> r3.off, msg |-> parsed.msg, calls |-> 3, io |-> io3,
              decoded |-> TRUE]

\* The answers envs are ones the environment can give to this ReadNextPB:
\* one per bounded read made, each possible for that read.
ReadEnvsPossible(content, off, envs) ==
    LET r1 == ValidateAndRead(content, off, ToU32(kFixed32Len), EOF_OK, envs[1])
        data_size == DecodeFixed32(r1.data)
        r2 == ValidateAndRead(content, r1.off, data_size, EOF_NOT_OK, envs[2])
    IN  /\ EnvPossible(content, off, ToU32(kFixed32Len), envs[1])
        /\ IF r1.st # "OK" THEN envs[2] = EnvOk /\ envs[3] = EnvOk
           ELSE /\ EnvPossible(content, r1.off, data_size, envs[2])
                /\ IF r2.st # "OK" THEN envs[3] = EnvOk
                   ELSE EnvPossible(content, r2.off, ToU32(kPBContainerChecksumLen), envs[3])

FaultsIn(envs) == Cardinality({i \in 1..Len(envs) : envs[i] # EnvOk})

(***************************************************************************)
(* ByteSizeConsistencyError: both CHECK_EQs and the final LOG(FATAL) end   *)
(* the process, whatever the three sizes are.                              *)
(***************************************************************************)
ByteSizeConsistencyError(byte_size_before_serialization, byte_size_after_serialization, bytes_produced_by_serialization) ==
    "Abort"

(***************************************************************************)
(* AppendPartialToString(msg, output): [st, output].  sizeMsg, encMsg and  *)
(* afterMsg are the message as the first ByteSize(), the serializer and    *)
(* the second ByteSize() saw it.                                           *)
(***************************************************************************)
AppendPartialToString(sizeMsg, encMsg, afterMsg, output) ==
    LET byte_size == ByteSize(sizeMsg)
        produced  == Serialize(encMsg)
    IN  IF Len(produced) # byte_size
        THEN [st |-> ByteSizeConsistencyError(byte_size, ByteSize(afterMsg), Len(produced)),
              output |-> output]
        ELSE [st |-> "true", output |-> output \o produced]

(***************************************************************************)
(* State of one container file with its writer and its reader.             *)
(***************************************************************************)
VARIABLES
    file,       \* the bytes of the underlying file
    closed_,    \* WritablePBContainerFile::closed_
    writer_,    \* the calls that reached the WritableFile: [appends, flushes, syncs, closes]
    w_life,     \* "none" | "alive" | "destroyed" | "aborted": the WritablePBContainerFile object
    w_ret,      \* the last writer call: [op, st, closed], closed being closed_ on entry
    written,    \* the messages whose Append returned OK, in order
    headers,    \* the number of Init calls that returned OK
    offset_,    \* ReadablePBContainerFile::offset_
    reader_,    \* "open" | "null": ReadablePBContainerFile::reader_
    releases,   \* the number of times the RandomAccessFile was released
    r_life,     \* "none" | "alive" | "destroyed" | "crashed": the ReadablePBContainerFile object
    r_init,     \* the reader's Init call and what it returned: [magic, st]
    reads,      \* what each ReadNextPB call returned: [st, msg, off]
    sink,       \* the caller's message, passed to every ReadNextPB
    r_ret,      \* the last reader call and what it returned: [op, st]
    vr_log,     \* what each ValidateAndRead call of the reader did, in order
    tamper,     \* what was done to the file between writing and reading
    faults,     \* the failures the environment has injected
    str,        \* a faststring and the last AppendPartialToString on it: [st, output]
    names,      \* the directory: path -> the file linked there (a writer's id, 0 if none)
    ifile,      \* the bytes of the file each writer's NewTempWritableFile created
    wp,         \* each path-level write call: its arguments, position and locals
    rp,         \* the path-level read call: its arguments, position and locals
    renames,    \* the number of RenameFile calls that succeeded
    lastRename  \* the writer whose RenameFile succeeded last (0 if none)

cvars == << file, closed_, writer_, w_life, w_ret, written, headers, offset_, reader_,
            releases, r_life, r_init, reads, sink, r_ret, vr_log, tamper, faults, str >>

pvars == << names, ifile, wp, rp, renames, lastRename >>

vars == << cvars, pvars >>

\* The container's state but for the count of injected failures.
cstate == << file, closed_, writer_, w_life, w_ret, written, headers, offset_, reader_,
             releases, r_life, r_init, reads, sink, r_ret, vr_log, tamper, str >>

wvars == << file, closed_, writer_, w_life, w_ret, written, headers >>
rvars == << offset_, reader_, releases, r_life, r_init, reads, sink, r_ret, vr_log >>

NoTamper == [kind |-> "none", at |-> 0, bit |-> 0]
NoInit == [magic |-> << >>, st |-> "none"]

ContainerInit ==
    /\ file = << >>
    /\ closed_ = FALSE
    /\ writer_ = [appends |-> 0, flushes |-> 0, syncs |-> 0, closes |-> 0]
    /\ w_life = "alive"
    /\ w_ret = [op |-> "new", st |-> "OK", closed |-> FALSE]
    /\ written = << >>
    /\ headers = 0
    /\ offset_ = 0
    /\ reader_ = "null"
    /\ releases = 0
    /\ r_life = "none"
    /\ r_init = NoInit
    /\ reads = << >>
    /\ sink = EmptyMsg
    /\ r_ret = [op |-> "none", st |-> "OK"]
    /\ vr_log = << >>
    /\ tamper = NoTamper
    /\ faults = 0
    /\ str = [st |-> "none", output |-> << >>]

(***************************************************************************)
(* State of the path-level calls: a directory with the target path and the *)
(* temporary names, the files the writers created, and the calls.          *)
(***************************************************************************)
Writers == {1, 2}
kTarget == "path"
TmpNames == {"path.tmp.a", "path.tmp.b"}
Names == {kTarget} \cup TmpNames

IdleWrite ==
    [pc |-> "idle", kind |-> "none", sync |-> FALSE, msg |-> EmptyMsg, tmp_path |-> "",
     armed |-> FALSE, renamed |-> FALSE, st |-> "none", ev |-> << >>,
     pre |-> [ino |-> 0, bytes |-> << >>], rn0 |-> 0]

IdleRead ==
    [pc |-> "idle", kind |-> "none", h |-> 0, off |-> 0, st |-> "none", msg |-> EmptyMsg,
     failed |-> FALSE]

PathIdle ==
    /\ names = [n \in Names |-> 0]
    /\ ifile = [w \in Writers |-> << >>]
    /\ wp = [w \in Writers |-> IdleWrite]
    /\ rp = IdleRead
    /\ renames = 0
    /\ lastRename = 0

\* The environment may fail a call while its budget of failures lasts.
EnvAllowed(env) == env = EnvOk \/ faults < MaxFaults
Injected(env) == IF env = EnvOk THEN faults ELSE faults + 1

(***************************************************************************)
(* The writer's operations.                                                *)
(***************************************************************************)
\* DCHECK(cond): nothing in a build with NDEBUG (ndebug), a test that ends
\* the process when it fails in a build without.
DCHECK(cond, ndebug) == ndebug \/ cond

\* The process ended by a failed DCHECK in op.
DCheckAbort(op) ==
    /\ w_life' = "aborted"
    /\ w_ret' = [op |-> op, st |-> "Abort", closed |-> closed_]
    /\ UNCHANGED << file, closed_, writer_, written, headers, tamper, faults, str >>
    /\ UNCHANGED rvars

\* WritablePBContainerFile::Init(magic)
W_Init(magic, env, ndebug) ==
    /\ w_life = "alive"
    /\ IF ~DCHECK(~closed_, ndebug)
       THEN env = EnvOk /\ DCheckAbort("Init")
       ELSE /\ EnvAllowed(env)
            /\ writer_' = [writer_ EXCEPT !.appends = @ + 1]
            /\ IF env = EnvOk
               THEN /\ file' = file \o InitBuf(magic)
                    /\ headers' = headers + 1
                    /\ w_ret' = [op |-> "Init", st |-> "OK", closed |-> closed_]
               ELSE /\ UNCHANGED << file, headers >>
                    /\ w_ret' = [op |-> "Init", st |-> "IOError", closed |-> closed_]
            /\ faults' = Injected(env)
            /\ UNCHANGED << closed_, w_life, written, tamper, str >>
            /\ UNCHANGED rvars

\* WritablePBContainerFile::Append(msg)
W_Append(sizeMsg, encMsg, junk, env, ndebug) ==
    /\ w_life = "alive"
    /\ IF ~DCHECK(~closed_, ndebug)
       THEN env = EnvOk /\ DCheckAbort("Append")
       ELSE /\ EnvAllowed(env)
            /\ writer_' = [writer_ EXCEPT !.appends = @ + 1]
            /\ IF env = EnvOk
               THEN /\ file' = file \o AppendBuf(sizeMsg, encMsg, junk)
                    /\ written' = Append(written, [size |-> sizeMsg, enc |-> encMsg])
                    /\ w_ret' = [op |-> "Append", st |-> "OK", closed |-> closed_]
               ELSE /\ UNCHANGED << file, written >>
                    /\ w_ret' = [op |-> "Append", st |-> "IOError", closed |-> closed_]
            /\ faults' = Injected(env)
            /\ UNCHANGED << closed_, w_life, headers, tamper, str >>
            /\ UNCHANGED rvars

\* WritablePBContainerFile::Flush()
W_Flush(env, ndebug) ==
    /\ w_life = "alive"
    /\ IF ~DCHECK(~closed_, ndebug)
       THEN env = EnvOk /\ DCheckAbort("Flush")
       ELSE /\ EnvAllowed(env)
            /\ writer_' = [writer_ EXCEPT !.flushes = @ + 1]
            /\ w_ret' = [op |-> "Flush", st |-> IF env = EnvOk THEN "OK" ELSE "IOError",
                         closed |-> closed_]
            /\ faults' = Injected(env)
            /\ UNCHANGED << file, closed_, w_life, written, headers, tamper, str >>
            /\ UNCHANGED rvars

\* WritablePBContainerFile::Sync()
W_Sync(env, ndebug) ==
    /\ w_life = "alive"
    /\ IF ~DCHECK(~closed_, ndebug)
       THEN env = EnvOk /\ DCheckAbort("Sync")
       ELSE /\ EnvAllowed(env)
            /\ writer_' = [writer_ EXCEPT !.syncs = @ + 1]
            /\ w_ret' = [op |-> "Sync", st |-> IF env = EnvOk THEN "OK" ELSE "IOError",
                         closed |-> closed_]
            /\ faults' = Injected(env)
            /\ UNCHANGED << file, closed_, w_life, written, headers, tamper, str >>
            /\ UNCHANGED rvars

\* A Close without the closed_ test: it closes the stream on every call.
W_CloseUnguarded(env) ==
    /\ w_life = "alive"
    /\ EnvAllowed(env)
    /\ closed_' = TRUE
    /\ writer_' = [writer_ EXCEPT !.closes = @ + 1]
    /\ w_ret' = [op |-> "Close", st |-> IF env = EnvOk THEN "OK" ELSE "IOError", closed |-> closed_]
    /\ faults' = Injected(env)
    /\ UNCHANGED << file, w_life, written, headers, tamper, str >>
    /\ UNCHANGED rvars

\* WritablePBContainerFile::Close()
W_Close(env) ==
    /\ w_life = "alive"
    /\ IF ~closed_
       THEN /\ EnvAllowed(env)
            /\ closed_' = TRUE
            /\ writer_' = [writer_ EXCEPT !.closes = @ + 1]
            /\ w_ret' = [op |-> "Close", st |-> IF env = EnvOk THEN "OK" ELSE "IOError", closed |-> closed_]
            /\ faults' = Injected(env)
       ELSE /\ env = EnvOk
            /\ w_ret' = [op |-> "Close", st |-> "OK", closed |-> closed_]
            /\ UNCHANGED << closed_, writer_, faults >>
    /\ UNCHANGED << file, w_life, written, headers, tamper, str >>
    /\ UNCHANGED rvars

\* WritablePBContainerFile::~WritablePBContainerFile(): Close(), its status logged.
W_Destroy(env) ==
    /\ w_life = "alive"
    /\ IF ~closed_
       THEN /\ EnvAllowed(env)
            /\ closed_' = TRUE
            /\ writer_' = [writer_ EXCEPT !.closes = @ + 1]
            /\ faults' = Injected(env)
       ELSE /\ env = EnvOk
            /\ UNCHANGED << closed_, writer_, faults >>
    /\ w_life' = "destroyed"
    /\ w_ret' = [op |-> "Destroy", st |-> "OK", closed |-> closed_]
    /\ UNCHANGED << file, written, headers, tamper, str >>
    /\ UNCHANGED rvars

(***************************************************************************)
(* Damage done to the file at rest, after the writer is gone and before a  *)
(* reader opens it: a truncation to `at` bytes, or one flipped bit.        *)
(***************************************************************************)
BitWeight(bit) == 2 ^ bit
FlipBit(byte, bit) ==
    IF (byte \div BitWeight(bit)) % 2 = 1 THEN byte - BitWeight(bit) ELSE byte + BitWeight(bit)

Truncate(at) ==
    /\ w_life = "destroyed" /\ r_life = "none" /\ tamper = NoTamper
    /\ at < Len(file)
    /\ file' = Take(file, at)
    /\ tamper' = [kind |-> "truncate", at |-> at, bit |-> 0]
    /\ UNCHANGED << closed_, writer_, w_life, w_ret, written, headers, faults, str >>
    /\ UNCHANGED rvars

Flip(at, bit) ==
    /\ w_life = "destroyed" /\ r_life = "none" /\ tamper = NoTamper
    /\ at < Len(file)
    /\ file' = [file EXCEPT ![at + 1] = FlipBit(@, bit)]
    /\ tamper' = [kind |-> "flip", at |-> at, bit |-> bit]
    /\ UNCHANGED << closed_, writer_, w_life, w_ret, written, headers, faults, str >>
    /\ UNCHANGED rvars

(***************************************************************************)
(* The reader's operations.                                                *)
(***************************************************************************)
\* ReadablePBContainerFile::ReadablePBContainerFile(reader)
R_New ==
    /\ r_life = "none"
    /\ w_life # "alive"
    /\ r_life' = "alive"
    /\ reader_' = "open"
    /\ offset_' = 0
    /\ r_ret' = [op |-> "new", st |-> "OK"]
    /\ UNCHANGED << releases, r_init, reads, sink, vr_log, tamper, faults, str >>
    /\ UNCHANGED wvars

\* ReadablePBContainerFile::Init(magic)
\* reader_->Size() with reader_ null, after Close(): the process ends.
NullReaderCrash(op) ==
    /\ r_life' = "crashed"
    /\ r_ret' = [op |-> op, st |-> "Crash"]
    /\ UNCHANGED << offset_, reader_, releases, r_init, reads, sink, vr_log, tamper,
                    faults, str >>
    /\ UNCHANGED wvars

R_Init(magic, env) ==
    /\ r_life = "alive"
    /\ IF reader_ = "null"
       THEN env = EnvOk /\ NullReaderCrash("Init")
       ELSE /\ EnvAllowed(env)
            /\ EnvPossible(file, offset_, ToU32(kPBContainerHeaderLen), env)
            /\ LET r == ReaderInit(file, offset_, magic, env)
               IN  /\ offset_' = r.off
                   /\ r_init' = [magic |-> magic, st |-> r.st]
                   /\ r_ret' = [op |-> "Init", st |-> r.st]
                   /\ vr_log' = vr_log \o r.io
            /\ faults' = Injected(env)
            /\ UNCHANGED << reader_, releases, r_life, reads, sink, tamper, str >>
            /\ UNCHANGED wvars

\* ReadablePBContainerFile::ReadNextPB(msg)
R_ReadNextPB(envs) ==
    /\ r_life = "alive"
    /\ IF reader_ = "null"
       THEN envs = << EnvOk, EnvOk, EnvOk >> /\ NullReaderCrash("ReadNextPB")
       ELSE /\ faults + FaultsIn(envs) <= MaxFaults
            /\ ReadEnvsPossible(file, offset_, envs)
            /\ faults' = faults + FaultsIn(envs)
            /\ LET r == ReadNext(file, offset_, sink, envs)
               IN  /\ offset_' = r.off
                   /\ sink' = r.msg
                   /\ reads' = Append(reads, [st |-> r.st, msg |-> r.msg, off |-> r.off,
                                              from |-> offset_, decoded |-> r.decoded])
                   /\ r_ret' = [op |-> "ReadNextPB", st |-> r.st]
                   /\ vr_log' = vr_log \o r.io
            /\ UNCHANGED << reader_, releases, r_life, r_init, tamper, str >>
            /\ UNCHANGED wvars

\* ReadablePBContainerFile::Close()
R_Close ==
    /\ r_life = "alive"
    /\ reader_' = "null"
    /\ releases' = IF reader_ = "open" THEN releases + 1 ELSE releases
    /\ r_ret' = [op |-> "Close", st |-> "OK"]
    /\ UNCHANGED << offset_, r_life, r_init, reads, sink, vr_log, tamper, faults, str >>
    /\ UNCHANGED wvars

\* ReadablePBContainerFile::~ReadablePBContainerFile(): Close(), its status logged.
R_Destroy ==
    /\ r_life = "alive"
    /\ reader_' = "null"
    /\ releases' = IF reader_ = "open" THEN releases + 1 ELSE releases
    /\ r_life' = "destroyed"
    /\ r_ret' = [op |-> "Destroy", st |-> "OK"]
    /\ UNCHANGED << offset_, r_init, reads, sink, vr_log, tamper, faults, str >>
    /\ UNCHANGED wvars

AllOk == << EnvOk, EnvOk, EnvOk >>

(***************************************************************************)
(* Spec: a well-formed container is written (one Init, then Appends of     *)
(* complete, unmodified messages, every call succeeding), the file is      *)
(* perhaps damaged at rest, and a reader then reads it sequentially,       *)
(* stopping at the first error.                                            *)
(***************************************************************************)
ReadsDone ==
    \/ \E i \in 1..Len(reads) : reads[i].st \notin {"OK", "EndOfFile"}
    \/ Cardinality({i \in 1..Len(reads) : reads[i].st = "EndOfFile"}) >= MaxExtraReads

WriteHeader ==
    \E magic \in {kMagic}, ndebug \in BOOLEAN :
        headers = 0 /\ written = << >> /\ W_Init(magic, EnvOk, ndebug)

WriteRecord ==
    \E m \in Messages, ndebug \in BOOLEAN :
        /\ headers = 1
        /\ Len(written) < MaxRecords
        /\ W_Append(m, m, 0, EnvOk, ndebug)

FinishWriting == headers = 1 /\ W_Destroy(EnvOk)

Damage ==
    \/ \E at \in 0..(Len(file) - 1) : Truncate(at)
    \/ \E at \in 0..(Len(file) - 1), bit \in 0..7 : Flip(at, bit)

OpenReader == R_New

ReadHeader == \E magic \in Magics : r_init = NoInit /\ R_Init(magic, EnvOk)

ReadRecord ==
    /\ r_init.st = "OK"
    /\ ~ReadsDone
    /\ R_ReadNextPB(AllOk)

Init == ContainerInit /\ PathIdle

Next ==
    \/ WriteHeader
    \/ WriteRecord
    \/ FinishWriting
    \/ Damage
    \/ OpenReader
    \/ ReadHeader
    \/ ReadRecord

Spec == Init /\ [][Next /\ UNCHANGED pvars]_vars

(***************************************************************************)
(* AppendPartialToString on a faststring.                                  *)
(***************************************************************************)
S_AppendPartialToString(sizeMsg, encMsg, afterMsg) ==
    /\ str.st # "Abort"
    /\ str' = AppendPartialToString(sizeMsg, encMsg, afterMsg, str.output)
    /\ UNCHANGED << tamper, faults >>
    /\ UNCHANGED wvars
    /\ UNCHANGED rvars

(***************************************************************************)
(* The bytes of a well-formed container: the header and one frame per      *)
(* message.                                                                *)
(***************************************************************************)
RECURSIVE FramesOf(_)
FramesOf(msgs) ==
    IF msgs = << >> THEN << >>
    ELSE AppendBuf(Head(msgs), Head(msgs), 0) \o FramesOf(Tail(msgs))

ContainerOf(magic, msgs) == InitBuf(magic) \o FramesOf(msgs)

(***************************************************************************)
(* SpecLifecycle: the objects' operations in any order, with calls of the  *)
(* file system that fail, and with messages that another thread modifies   *)
(* during Append.  A behaviour is one of: a writer on a new file; a reader *)
(* on an existing file; AppendPartialToString calls on a string.           *)
(***************************************************************************)
\* Messages of SpecLifecycle: a concurrent modification turns one into the other.
RacyMessages == {MsgOf(v) : v \in FieldValues}

\* A header cut one byte short.
ShortHeader == Take(InitBuf(kMagic), kPBContainerHeaderLen - 1)

\* A record whose checksum matches and whose payload does not decode: the
\* two bytes 08 C8, a varint that lacks its last byte.
UndecodableRecord == AppendBuf(MsgOf(1), MsgOf(200), 0)

\* The record of MsgOf(1) with its first payload byte changed from 08 to 09.
MismatchedRecord == [AppendBuf(MsgOf(1), MsgOf(1), 0) EXCEPT ![kFixed32Len + 1] = 9]

\* The record of MsgOf(1) with its length field changed from 2 to 200.
OverlongRecord == [AppendBuf(MsgOf(1), MsgOf(1), 0) EXCEPT ![1] = 200]

\* Files a reader is opened on.
SampleFiles ==
    { << >>,
      ShortHeader,
      ContainerOf(kMagic, << >>),
      ContainerOf(kMagic, << MsgOf(1) >>),
      InitBuf(kMagic) \o UndecodableRecord,
      InitBuf(kMagic) \o MismatchedRecord,
      InitBuf(kMagic) \o OverlongRecord }

LifecycleStart ==
    \/ ContainerInit
    \/ /\ file \in SampleFiles
       /\ closed_ = FALSE
       /\ writer_ = [appends |-> 0, flushes |-> 0, syncs |-> 0, closes |-> 0]
       /\ w_life = "none"
       /\ w_ret = [op |-> "none", st |-> "OK", closed |-> FALSE]
       /\ written = << >>
       /\ headers = 0
       /\ offset_ = 0
       /\ reader_ = "null"
       /\ releases = 0
       /\ r_life = "none"
       /\ r_init = NoInit
       /\ reads = << >>
       /\ sink = EmptyMsg
       /\ r_ret = [op |-> "none", st |-> "OK"]
       /\ vr_log = << >>
       /\ tamper = NoTamper
       /\ faults = 0
       /\ str = [st |-> "none", output |-> << >>]

\* Nothing but AppendPartialToString has run, and it has run at most once.
OnlyStrings == w_ret.op = "new" /\ str.output = << >>
\* A writer is in use and AppendPartialToString is not.
InWriter == str.st = "none"

L_Init ==
    \E env \in WriteEnvs, ndebug \in BOOLEAN :
        InWriter /\ writer_.appends < MaxRecords /\ W_Init(kMagic, env, ndebug)

L_Append ==
    \E sizeMsg \in RacyMessages, encMsg \in RacyMessages, junk \in JunkBytes,
       env \in WriteEnvs, ndebug \in BOOLEAN :
        /\ InWriter /\ writer_.appends < MaxRecords
        /\ (junk # 0 => Len(Serialize(encMsg)) < ByteSize(sizeMsg))
        /\ W_Append(sizeMsg, encMsg, junk, env, ndebug)

L_Flush ==
    \E env \in WriteEnvs, ndebug \in BOOLEAN :
        InWriter /\ writer_.flushes + writer_.syncs < MaxSyncs /\ W_Flush(env, ndebug)

L_Sync ==
    \E env \in WriteEnvs, ndebug \in BOOLEAN :
        InWriter /\ writer_.flushes + writer_.syncs < MaxSyncs /\ W_Sync(env, ndebug)

L_Close == \E env \in WriteEnvs : InWriter /\ W_Close(env)

L_Destroy == \E env \in WriteEnvs : InWriter /\ W_Destroy(env)

L_AppendPartialToString ==
    \E sizeMsg \in RacyMessages, encMsg \in RacyMessages, afterMsg \in RacyMessages :
        OnlyStrings /\ S_AppendPartialToString(sizeMsg, encMsg, afterMsg)

L_Open == w_life = "none" /\ R_New

L_ReadHeader ==
    \E magic \in Magics, env \in ReadEnvs : r_init = NoInit /\ R_Init(magic, env)

L_ReadRecord ==
    \E e1 \in ReadEnvs, e2 \in ReadEnvs, e3 \in ReadEnvs :
        /\ Len(reads) < MaxRecords
        /\ R_ReadNextPB(<< e1, e2, e3 >>)

L_CloseReader == R_Close

L_DestroyReader == R_Destroy

LifecycleNext ==
    \/ L_Init
    \/ L_Append
    \/ L_Flush
    \/ L_Sync
    \/ L_Close
    \/ L_Destroy
    \/ L_AppendPartialToString
    \/ L_Open
    \/ L_ReadHeader
    \/ L_ReadRecord
    \/ L_CloseReader
    \/ L_DestroyReader

LifecycleInit == LifecycleStart /\ PathIdle

SpecLifecycle == LifecycleInit /\ [][LifecycleNext /\ UNCHANGED pvars]_vars

(***************************************************************************)
(* WritePBToPath and WritePBContainerToPath, one step per call to the file *)
(* system, so that the calls of two writers and a reader interleave.       *)
(* Writer w's call is at wp[w].pc:                                         *)
(*   idle -> write [-> append] [-> sync] -> close -> rename [-> syncdir]   *)
(*        -> done, and from any failure before the rename succeeded        *)
(*        -> cleanup (the ScopedFileDeleter) -> done.                      *)
(***************************************************************************)
RAW == "raw"              \* WritePBToPath / ReadPBFromPath
CONTAINER == "container"  \* WritePBContainerToPath / ReadPBContainerFromPath
Kinds == {RAW, CONTAINER}
\* SyncMode: TRUE is SYNC, FALSE is NO_SYNC.
SyncModes == {TRUE, FALSE}
\* The two calls write different messages, so that whose file is at the
\* target can be told from its bytes.
MessagesOf(w) == IF w = 1 THEN {EmptyMsg, MsgOf(1)} ELSE {MsgOf(200)}

\* What is visible at the target path: the file linked there and its bytes.
TargetView ==
    [ino |-> names[kTarget],
     bytes |-> IF names[kTarget] = 0 THEN << >> ELSE ifile[names[kTarget]]]

\* NewTempWritableFile(tmp_template): a name that does not exist yet.
FreshNames == {n \in TmpNames : names[n] = 0}

\* The temp file closed without the data sync, whatever the mode.
AfterWriteNoSync(sync) == "close"

AfterWrite(sync) == IF sync THEN "sync" ELSE "close"

\* A step of call w that failed with st before the rename succeeded.
Failed(w, st, op) ==
    [wp EXCEPT ![w].pc = "cleanup", ![w].st = st, ![w].ev = Append(@, op)]

Stepped(w, pc, op) == [wp EXCEPT ![w].pc = pc, ![w].ev = Append(@, op)]

\* The first step of a call: a writable file created at one of the names
\* in candidates, and the ScopedFileDeleter armed on that name.
CreateAt(w, kind, msg, sync, env, candidates) ==
    /\ wp[w].pc = "idle"
    /\ EnvAllowed(env)
    /\ IF env = EnvOk
       THEN \E n \in candidates :
               /\ names' = [names EXCEPT ![n] = w]
               /\ ifile' = [ifile EXCEPT ![w] = << >>]
               /\ wp' = [wp EXCEPT ![w] =
                            [pc |-> "write", kind |-> kind, sync |-> sync, msg |-> msg,
                             tmp_path |-> n, armed |-> TRUE, renamed |-> FALSE,
                             st |-> "none", ev |-> << "create" >>,
                             pre |-> TargetView, rn0 |-> renames]]
       ELSE /\ wp' = [wp EXCEPT ![w] =
                            [pc |-> "done", kind |-> kind, sync |-> sync, msg |-> msg,
                             tmp_path |-> "", armed |-> FALSE, renamed |-> FALSE,
                             st |-> "IOError", ev |-> << >>,
                             pre |-> TargetView, rn0 |-> renames]]
            /\ UNCHANGED << names, ifile >>
    /\ faults' = Injected(env)
    /\ UNCHANGED << rp, renames, lastRename >>
    /\ UNCHANGED cstate

\* The file opened for writing at the target path itself.
P_NewTempInPlace(w, kind, msg, sync, env) ==
    CreateAt(w, kind, msg, sync, env, {kTarget})

\* env->NewTempWritableFile(..., tmp_template, &tmp_path, &file), then the
\* ScopedFileDeleter on tmp_path.
P_NewTemp(w, kind, msg, sync, env) ==
    CreateAt(w, kind, msg, sync, env, FreshNames)

\* WritePBToPath: msg.SerializeToZeroCopyStream(&ostream) and ostream.Flush()
P_Serialize(w, env) ==
    /\ wp[w].pc = "write" /\ wp[w].kind = RAW
    /\ EnvAllowed(env)
    /\ IF env = EnvOk
       THEN /\ ifile' = [ifile EXCEPT ![w] = @ \o Serialize(wp[w].msg)]
            /\ wp' = Stepped(w, AfterWrite(wp[w].sync), "write")
       ELSE /\ wp' = Failed(w, "IOError", "write")
            /\ UNCHANGED ifile
    /\ faults' = Injected(env)
    /\ UNCHANGED << names, rp, renames, lastRename >>
    /\ UNCHANGED cstate

\* WritePBContainerToPath: pb_file.Init(magic)
P_Init(w, env) ==
    /\ wp[w].pc = "write" /\ wp[w].kind = CONTAINER
    /\ EnvAllowed(env)
    /\ IF env = EnvOk
       THEN /\ ifile' = [ifile EXCEPT ![w] = @ \o InitBuf(kMagic)]
            /\ wp' = Stepped(w, "append", "write")
       ELSE /\ wp' = Failed(w, "IOError", "write")
            /\ UNCHANGED ifile
    /\ faults' = Injected(env)
    /\ UNCHANGED << names, rp, renames, lastRename >>
    /\ UNCHANGED cstate

\* WritePBContainerToPath: pb_file.Append(msg)
P_Append(w, env) ==
    /\ wp[w].pc = "append"
    /\ EnvAllowed(env)
    /\ IF env = EnvOk
       THEN /\ ifile' = [ifile EXCEPT ![w] = @ \o AppendBuf(wp[w].msg, wp[w].msg, 0)]
            /\ wp' = Stepped(w, AfterWrite(wp[w].sync), "write")
       ELSE /\ wp' = Failed(w, "IOError", "write")
            /\ UNCHANGED ifile
    /\ faults' = Injected(env)
    /\ UNCHANGED << names, rp, renames, lastRename >>
    /\ UNCHANGED cstate

\* file->Sync() / pb_file.Sync(), when sync == pb_util::SYNC
P_Sync(w, env) ==
    /\ wp[w].pc = "sync"
    /\ EnvAllowed(env)
    /\ wp' = IF env = EnvOk THEN Stepped(w, "close", "sync") ELSE Failed(w, "IOError", "sync")
    /\ faults' = Injected(env)
    /\ UNCHANGED << names, ifile, rp, renames, lastRename >>
    /\ UNCHANGED cstate

\* file->Close() / pb_file.Close()
P_Close(w, env) ==
    /\ wp[w].pc = "close"
    /\ EnvAllowed(env)
    /\ wp' = IF env = EnvOk THEN Stepped(w, "rename", "close") ELSE Failed(w, "IOError", "close")
    /\ faults' = Injected(env)
    /\ UNCHANGED << names, ifile, rp, renames, lastRename >>
    /\ UNCHANGED cstate

\* A rename that does not wait for the record to be appended.
P_RenameEarly(w, env) ==
    /\ wp[w].pc \in {"append", "rename"}
    /\ EnvAllowed(env)
    /\ IF env = EnvOk
       THEN /\ names' = [names EXCEPT ![kTarget] = names[wp[w].tmp_path],
                                      ![wp[w].tmp_path] = 0]
            /\ renames' = renames + 1
            /\ lastRename' = w
            /\ wp' = [wp EXCEPT ![w].pc = IF wp[w].sync THEN "syncdir" ELSE "done",
                                ![w].st = IF wp[w].sync THEN @ ELSE "OK",
                                ![w].armed = FALSE,
                                ![w].renamed = TRUE,
                                ![w].ev = Append(@, "rename")]
       ELSE /\ wp' = Failed(w, "IOError", "rename")
            /\ UNCHANGED << names, renames, lastRename >>
    /\ faults' = Injected(env)
    /\ UNCHANGED << ifile, rp >>
    /\ UNCHANGED cstate

\* A rename after which tmp_deleter.Cancel() is not called.
P_RenameNoCancel(w, env) ==
    /\ wp[w].pc = "rename"
    /\ EnvAllowed(env)
    /\ IF env = EnvOk
       THEN /\ names' = [names EXCEPT ![kTarget] = names[wp[w].tmp_path],
                                      ![wp[w].tmp_path] = 0]
            /\ renames' = renames + 1
            /\ lastRename' = w
            /\ wp' = [wp EXCEPT ![w].pc = IF wp[w].sync THEN "syncdir" ELSE "cleanup",
                                ![w].st = IF wp[w].sync THEN @ ELSE "OK",
                                ![w].renamed = TRUE,
                                ![w].ev = Append(@, "rename")]
       ELSE /\ wp' = Failed(w, "IOError", "rename")
            /\ UNCHANGED << names, renames, lastRename >>
    /\ faults' = Injected(env)
    /\ UNCHANGED << ifile, rp >>
    /\ UNCHANGED cstate

\* env->RenameFile(tmp_path, path), then tmp_deleter.Cancel()
P_Rename(w, env) ==
    /\ wp[w].pc = "rename"
    /\ EnvAllowed(env)
    /\ IF env = EnvOk
       THEN /\ names' = [names EXCEPT ![kTarget] = names[wp[w].tmp_path],
                                      ![wp[w].tmp_path] = 0]
            /\ renames' = renames + 1
            /\ lastRename' = w
            /\ wp' = [wp EXCEPT ![w].pc = IF wp[w].sync THEN "syncdir" ELSE "done",
                                ![w].st = IF wp[w].sync THEN @ ELSE "OK",
                                ![w].armed = FALSE,
                                ![w].renamed = TRUE,
                                ![w].ev = Append(@, "rename")]
       ELSE /\ wp' = Failed(w, "IOError", "rename")
            /\ UNCHANGED << names, renames, lastRename >>
    /\ faults' = Injected(env)
    /\ UNCHANGED << ifile, rp >>
    /\ UNCHANGED cstate

\* A SyncDir whose failure is handled like the earlier ones: the file at
\* path is deleted before the error is returned.
P_SyncDirRollback(w, env) ==
    /\ wp[w].pc = "syncdir"
    /\ EnvAllowed(env)
    /\ wp' = [wp EXCEPT ![w].pc = "done",
                        ![w].st = IF env = EnvOk THEN "OK" ELSE "IOError",
                        ![w].ev = Append(@, "syncdir")]
    /\ names' = IF env = EnvOk THEN names ELSE [names EXCEPT ![kTarget] = 0]
    /\ faults' = Injected(env)
    /\ UNCHANGED << ifile, rp, renames, lastRename >>
    /\ UNCHANGED cstate

\* env->SyncDir(DirName(path)), when sync == pb_util::SYNC
P_SyncDir(w, env) ==
    /\ wp[w].pc = "syncdir"
    /\ EnvAllowed(env)
    /\ wp' = [wp EXCEPT ![w].pc = IF wp[w].armed THEN "cleanup" ELSE "done",
                        ![w].st = IF env = EnvOk THEN "OK" ELSE "IOError",
                        ![w].ev = Append(@, "syncdir")]
    /\ faults' = Injected(env)
    /\ UNCHANGED << names, ifile, rp, renames, lastRename >>
    /\ UNCHANGED cstate

\* A return with the ScopedFileDeleter armed: its destructor deletes doomed,
\* and a delete that fails is only logged.
DeleteOnReturn(w, env, doomed) ==
    /\ wp[w].pc = "cleanup"
    /\ EnvAllowed(env)
    /\ names' = IF wp[w].armed /\ env = EnvOk
                THEN [names EXCEPT ![doomed] = 0]
                ELSE names
    /\ wp' = [wp EXCEPT ![w].pc = "done",
                        ![w].ev = Append(@, IF env = EnvOk THEN "delete" ELSE "delete_failed")]
    /\ faults' = Injected(env)
    /\ UNCHANGED << ifile, rp, renames, lastRename >>
    /\ UNCHANGED cstate

\* A ScopedFileDeleter built on path instead of tmp_path.
P_CleanupTarget(w, env) == DeleteOnReturn(w, env, kTarget)

\* ~ScopedFileDeleter deletes tmp_path.
P_Cleanup(w, env) == DeleteOnReturn(w, env, wp[w].tmp_path)

(***************************************************************************)
(* ReadPBFromPath and ReadPBContainerFromPath, one step per call on the    *)
(* opened file.  rp.h is the file the open returned: it stays the same     *)
(* file when the path is renamed over.                                     *)
(***************************************************************************)
\* env_util::OpenFileForSequential / env->NewRandomAccessFile(path, &file)
Q_Open(kind, env) ==
    /\ rp.pc = "idle"
    /\ EnvAllowed(env)
    /\ rp' = IF env # EnvOk
             THEN [rp EXCEPT !.pc = "done", !.kind = kind, !.st = "IOError", !.failed = TRUE]
             ELSE IF names[kTarget] = 0
             THEN [rp EXCEPT !.pc = "done", !.kind = kind, !.st = "NotFound"]
             ELSE [rp EXCEPT !.pc = IF kind = RAW THEN "parse" ELSE "init",
                             !.kind = kind, !.h = names[kTarget]]
    /\ faults' = Injected(env)
    /\ UNCHANGED << names, ifile, wp, renames, lastRename >>
    /\ UNCHANGED cstate

\* ReadPBFromPath: ParseFromSequentialFile(msg, rfile.get())
Q_Parse(env) ==
    /\ rp.pc = "parse"
    /\ env \in {EnvOk, "read_err"}
    /\ EnvAllowed(env)
    /\ LET parsed == Parse(ifile[rp.h])
       IN  rp' = IF env # EnvOk
                 THEN [rp EXCEPT !.pc = "done", !.st = "IOError", !.failed = TRUE]
                 ELSE [rp EXCEPT !.pc = "done", !.msg = parsed.msg,
                                 !.st = IF parsed.ok THEN "OK" ELSE "IOError"]
    /\ faults' = Injected(env)
    /\ UNCHANGED << names, ifile, wp, renames, lastRename >>
    /\ UNCHANGED cstate

\* ReadPBContainerFromPath: pb_file.Init(magic)
Q_Init(env) ==
    /\ rp.pc = "init"
    /\ EnvAllowed(env)
    /\ EnvPossible(ifile[rp.h], rp.off, ToU32(kPBContainerHeaderLen), env)
    /\ LET r == ReaderInit(ifile[rp.h], rp.off, kMagic, env)
       IN  rp' = [rp EXCEPT !.pc = IF r.st = "OK" THEN "read" ELSE "done",
                            !.st = IF r.st = "OK" THEN @ ELSE r.st,
                            !.off = r.off,
                            !.failed = (env # EnvOk)]
    /\ faults' = Injected(env)
    /\ UNCHANGED << names, ifile, wp, renames, lastRename >>
    /\ UNCHANGED cstate

\* ReadPBContainerFromPath: pb_file.ReadNextPB(msg), then pb_file.Close()
Q_ReadNextPB(envs) ==
    /\ rp.pc = "read"
    /\ faults + FaultsIn(envs) <= MaxFaults
    /\ ReadEnvsPossible(ifile[rp.h], rp.off, envs)
    /\ LET r == ReadNext(ifile[rp.h], rp.off, rp.msg, envs)
       IN  rp' = [rp EXCEPT !.pc = "done", !.st = r.st, !.off = r.off, !.msg = r.msg,
                            !.failed = (envs # AllOk)]
    /\ faults' = faults + FaultsIn(envs)
    /\ UNCHANGED << names, ifile, wp, renames, lastRename >>
    /\ UNCHANGED cstate

(***************************************************************************)
(* SpecPath: two writers, each making one path-level write to the same     *)
(* path, and one reader making one path-level read, their steps            *)
(* interleaved in every order, with calls of the file system that fail.    *)
(***************************************************************************)
PathInit == ContainerInit /\ PathIdle

StartWrite ==
    \E w \in Writers, kind \in Kinds, sync \in SyncModes, env \in WriteEnvs :
        \E msg \in MessagesOf(w) : P_NewTemp(w, kind, msg, sync, env)
WriteRaw == \E w \in Writers, env \in WriteEnvs : P_Serialize(w, env)
WriteContainerHeader == \E w \in Writers, env \in WriteEnvs : P_Init(w, env)
WriteContainerRecord == \E w \in Writers, env \in WriteEnvs : P_Append(w, env)
SyncTemp == \E w \in Writers, env \in WriteEnvs : P_Sync(w, env)
CloseTemp == \E w \in Writers, env \in WriteEnvs : P_Close(w, env)
RenameTemp == \E w \in Writers, env \in WriteEnvs : P_Rename(w, env)
SyncParent == \E w \in Writers, env \in WriteEnvs : P_SyncDir(w, env)
DeleteTemp == \E w \in Writers, env \in WriteEnvs : P_Cleanup(w, env)
StartRead == \E kind \in Kinds, env \in WriteEnvs : Q_Open(kind, env)
ReadRaw == \E env \in ReadEnvs : Q_Parse(env)
ReadContainerHeader == \E env \in ReadEnvs : Q_Init(env)
ReadContainerRecord ==
    \E e1 \in ReadEnvs, e2 \in ReadEnvs, e3 \in ReadEnvs : Q_ReadNextPB(<< e1, e2, e3 >>)

PathNext ==
    \/ StartWrite
    \/ WriteRaw
    \/ WriteContainerHeader
    \/ WriteContainerRecord
    \/ SyncTemp
    \/ CloseTemp
    \/ RenameTemp
    \/ SyncParent
    \/ DeleteTemp
    \/ StartRead
    \/ ReadRaw
    \/ ReadContainerHeader
    \/ ReadContainerRecord

SpecPath == PathInit /\ [][PathNext]_vars

(***************************************************************************)
(* Where the frames of the written container lie in the file.              *)
(***************************************************************************)
FrameLen(rec) == kFixed32Len + ByteSize(rec.size) + kPBContainerChecksumLen

\* The offset just past the first k frames.
RECURSIVE FrameEnd(_)
FrameEnd(k) ==
    IF k = 0 THEN headers * kPBContainerHeaderLen
    ELSE FrameEnd(k - 1) + FrameLen(written[k])

FrameStart(k) == FrameEnd(k - 1)
FrameBoundaries == {FrameEnd(k) : k \in 0..Len(written)}

\* The caller's message before the i-th ReadNextPB call.
SinkBefore(i) == IF i = 1 THEN EmptyMsg ELSE reads[i - 1].msg

Intact == tamper = NoTamper
InitedWith(magic) == r_init.magic = magic /\ r_init.st # "none"

(***************************************************************************)
(* C1.  A container written with N records (one Init, N Appends) and read  *)
(* by a reader Init-ed with the same magic: Init returns OK, the i-th      *)
(* ReadNextPB for i <= N returns OK with the i-th message written, and     *)
(* every call after the N-th returns EndOfFile, delivers no record and     *)
(* leaves the cursor at the end of the file.                               *)
(***************************************************************************)
C1_SequentialRead ==
    (Intact /\ InitedWith(kMagic)) =>
        /\ r_init.st = "OK"
        /\ \A i \in 1..Len(reads) :
              IF i <= Len(written)
              THEN reads[i].st = "OK" /\ reads[i].msg = written[i].enc
              ELSE /\ reads[i].st = "EndOfFile"
                   /\ reads[i].msg = SinkBefore(i)
                   /\ reads[i].off = Len(file)

C1_Witness ==
    /\ Intact /\ InitedWith(kMagic)
    /\ Len(written) = 2 /\ written[1] # written[2]
    /\ Len(reads) = 4
    /\ reads[2].st = "OK" /\ reads[3].st = "EndOfFile" /\ reads[4].st = "EndOfFile"

C1_WitnessEmpty ==
    Intact /\ InitedWith(kMagic) /\ written = << >> /\ Len(reads) = 1

(***************************************************************************)
(* C3.  A container truncated strictly inside its k-th frame: the k-th     *)
(* ReadNextPB returns Corruption, and a ReadNextPB returns EndOfFile only  *)
(* when the file ends at a frame boundary.                                 *)
(***************************************************************************)
TruncatedInside(k) ==
    /\ tamper.kind = "truncate"
    /\ k \in 1..Len(written)
    /\ FrameStart(k) < tamper.at /\ tamper.at < FrameEnd(k)

C3_TruncationIsCorruption ==
    r_init.st = "OK" =>
        /\ \A k \in 1..Len(reads) : TruncatedInside(k) => reads[k].st = "Corruption"
        /\ \A i \in 1..Len(reads) :
              reads[i].st = "EndOfFile" => Len(file) \in FrameBoundaries

(***************************************************************************)
(* C4.  One bit flipped in the payload or the stored checksum of the k-th  *)
(* record: the k-th ReadNextPB returns Corruption and leaves the caller's  *)
(* message as it was.                                                      *)
(***************************************************************************)
FlippedInRecord(k) ==
    /\ tamper.kind = "flip"
    /\ k \in 1..Len(written)
    /\ FrameStart(k) + kFixed32Len <= tamper.at /\ tamper.at < FrameEnd(k)

C4_BitFlipIsCorruption ==
    r_init.st = "OK" =>
        \A k \in 1..Len(reads) :
            FlippedInRecord(k) =>
                /\ reads[k].st = "Corruption"
                /\ reads[k].msg = SinkBefore(k)
                /\ \A i \in 1..(k - 1) : reads[i].st = "OK"

C4_Witness ==
    /\ r_init.st = "OK"
    /\ Len(reads) = 2
    /\ FlippedInRecord(2)
    /\ tamper.at < FrameEnd(2) - kPBContainerChecksumLen
    /\ reads[2].st = "Corruption"

(***************************************************************************)
(* C5.  Init of a reader on a file of at least 12 bytes: Corruption when   *)
(* the first 8 bytes are not the expected magic, whatever follows;         *)
(* NotSupported when they are and bytes 8..11 are not the fixed32 of 1; OK *)
(* exactly when both match.                                                *)
(***************************************************************************)
MagicMatches == Take(file, 8) = r_init.magic
VersionIsOne == SubSeq(file, 9, 12) = << 1, 0, 0, 0 >>

C5_InitVerdict ==
    (r_init.st # "none" /\ Len(file) >= 12) =>
        /\ ~MagicMatches => r_init.st = "Corruption"
        /\ (MagicMatches /\ ~VersionIsOne) => r_init.st = "NotSupported"
        /\ r_init.st = "OK" <=> (MagicMatches /\ VersionIsOne)

C5_Witness ==
    /\ r_init.st = "Corruption" /\ Len(file) >= 12
    /\ ~MagicMatches /\ ~VersionIsOne

(***************************************************************************)
(* C9.  An Append of a message whose byte size measured before encoding    *)
(* differs from the number of bytes the encoder produces ends the process: *)
(* it never returns OK and never appends a frame.  So every Append that    *)
(* returned OK, its frame appended, was of a message for which the two     *)
(* agree.                                                                  *)
(***************************************************************************)
SizesAgree(rec) == ByteSize(rec.size) = Len(Serialize(rec.enc))

C9_InconsistentAppendAborts ==
    /\ \A i \in 1..Len(written) : SizesAgree(written[i])
    /\ (w_ret.op = "Append" /\ w_ret.st = "OK") => SizesAgree(written[Len(written)])

(***************************************************************************)
(* C10.  Close is idempotent.  The writer's stream is closed at most once, *)
(* exactly when closed_ is set, and exactly once by the time the writer is *)
(* destroyed; a Close that finds the writer closed returns OK.  The        *)
(* reader's file is released at most once, exactly when reader_ is null,   *)
(* and exactly once by the time the reader is destroyed; every Close of    *)
(* the reader returns OK.                                                  *)
(***************************************************************************)
C10_CloseIdempotent ==
    /\ writer_.closes <= 1
    /\ closed_ <=> (writer_.closes = 1)
    /\ (w_life = "destroyed") => (writer_.closes = 1)
    /\ (w_ret.op = "Close" /\ w_ret.closed) => (w_ret.st = "OK")
    /\ releases <= 1
    /\ (r_life # "none") => ((reader_ = "null") <=> (releases = 1))
    /\ (r_life = "destroyed") => (releases = 1)
    /\ (r_ret.op = "Close") => (r_ret.st = "OK")

\* The first Close failed (the one injected failure, with no other call made
\* on the stream) and a later Close returned OK without closing again.
C10_Witness ==
    /\ w_life = "alive"
    /\ faults = 1
    /\ writer_ = [appends |-> 0, flushes |-> 0, syncs |-> 0, closes |-> 1]
    /\ w_ret = [op |-> "Close", st |-> "OK", closed |-> TRUE]

(***************************************************************************)
(* C13.  Every file a writer produces holds the 12-byte header exactly     *)
(* once, as its first bytes, before any record frame.                      *)
(***************************************************************************)
C13_HeaderOnce ==
    (w_life # "none" /\ file # << >>) =>
        /\ headers = 1
        /\ Take(file, kPBContainerHeaderLen) = InitBuf(kMagic)

(***************************************************************************)
(* C14.  Init of a reader on a file shorter than 12 bytes never returns OK *)
(* nor EndOfFile: it returns Corruption (IOError when the Size() call      *)
(* itself failed), and as the reader's first call it leaves the cursor     *)
(* at 0.                                                                   *)
(***************************************************************************)
C14_ShortFileInit ==
    (r_init # NoInit /\ Len(file) < kPBContainerHeaderLen) =>
        /\ r_init.st \notin {"OK", "EndOfFile"}
        /\ r_init.st = "Corruption" \/ (r_init.st = "IOError" /\ faults > 0)
        /\ reads = << >> => offset_ = 0

\* Init on the 11-byte file returned Corruption with the cursor at 0.
C14_Witness ==
    /\ file = ShortHeader
    /\ r_init.st = "Corruption"
    /\ reads = << >> /\ offset_ = 0

\* Init on the empty file returned Corruption with the cursor at 0.
C14_WitnessEmpty ==
    /\ file = << >> /\ w_life = "none"
    /\ r_init.st = "Corruption"
    /\ reads = << >> /\ offset_ = 0


(***************************************************************************)
(* C15.  The reader's cursor starts at 0 and never decreases: every        *)
(* bounded read starts where the one before it left the cursor; one that   *)
(* succeeds advances the cursor by exactly the length asked for; one that  *)
(* fails (EndOfFile or Corruption from the size check, IOError from Size() *)
(* or Read(), Corruption from a short read) leaves it where it was.        *)
(***************************************************************************)
C15_CursorMonotone ==
    /\ offset_ = IF vr_log = << >> THEN 0 ELSE vr_log[Len(vr_log)].to
    /\ \A i \in 1..Len(vr_log) :
          LET c == vr_log[i]
          IN  /\ c.at = IF i = 1 THEN 0 ELSE vr_log[i - 1].to
              /\ c.st \in {"OK", "EndOfFile", "Corruption", "IOError"}
              /\ c.st = "OK" => c.len.hi = 0 /\ c.to = c.at + c.len.lo
              /\ c.st # "OK" => c.to = c.at
              /\ c.st = "EndOfFile" => ~c.read

\* A length field was read, moving the cursor, and the read of the body
\* came back short: Corruption, with the cursor left after the length field.
C15_Witness ==
    \E i \in 2..Len(vr_log) :
        /\ vr_log[i - 1].st = "OK" /\ vr_log[i - 1].to > vr_log[i - 1].at
        /\ vr_log[i].what = "body" /\ vr_log[i].read
        /\ vr_log[i].st = "Corruption"
        /\ offset_ = vr_log[i].at

(***************************************************************************)
(* C16.  Each Append that returns OK makes exactly one append call on the  *)
(* stream and adds to the end of the file length(4) || payload ||          *)
(* checksum(4): the length is the payload's byte count, little-endian, the *)
(* checksum is the CRC32C of the 4 length bytes followed by the payload,   *)
(* and the file grows by the payload's length + 8.  The payload is the     *)
(* message's encoding (when the message did not change during the call).   *)
(* An Append that fails leaves the file as it was.                         *)
(***************************************************************************)
IsAppendStep == w_ret'.op = "Append" /\ writer_' # writer_

\* The bytes the step added to the file are one frame with n payload bytes.
AppendedFrame(n) ==
    LET frame == Drop(file', Len(file))
        rec == written'[Len(written')]
    IN  /\ Len(file') = Len(file) + n + kFixed32Len + kPBContainerChecksumLen
        /\ Take(file', Len(file)) = file
        /\ Take(frame, kFixed32Len) = << n, 0, 0, 0 >>
        /\ DecodeFixed32(Drop(frame, kFixed32Len + n)) = Crc32c(Take(frame, kFixed32Len + n))
        /\ Len(written') = Len(written) + 1
        /\ n = ByteSize(rec.size)
        /\ rec.size = rec.enc => Slice(frame, kFixed32Len, n) = Serialize(rec.enc)

C16_AppendFrame ==
    [][IsAppendStep =>
          /\ writer_'.appends = writer_.appends + 1
          /\ IF w_ret'.st = "OK"
             THEN \E n \in 0..(Len(file') - Len(file)) : AppendedFrame(n)
             ELSE file' = file /\ written' = written]_vars

\* An Append of a 3-byte message returned OK, after a header: the file is
\* 12 + (3 + 8) bytes long.
C16_Witness ==
    /\ w_ret.op = "Append" /\ w_ret.st = "OK"
    /\ headers = 1 /\ writer_.appends = 2
    /\ written = << [size |-> MsgOf(200), enc |-> MsgOf(200)] >>
    /\ Len(file) = kPBContainerHeaderLen + 3 + 8

(***************************************************************************)
(* C17.  ReadNextPB calls the decoder, and can return OK, only after the   *)
(* CRC32C of the length bytes and payload bytes it read equals the stored  *)
(* checksum.  On a mismatch it returns Corruption, the decoder not called  *)
(* and the caller's message untouched; when the checksums match and the    *)
(* payload does not decode it returns IOError.                             *)
(***************************************************************************)
\* The frame the ReadNextPB call logged as e read, taken from the file.
FrameSize(e) == DecodeFixed32(Slice(file, e.from, kFixed32Len))
FramePayload(e) == Slice(file, e.from + kFixed32Len, FrameSize(e).lo)
FrameStored(e) ==
    DecodeFixed32(Slice(file, e.from + kFixed32Len + FrameSize(e).lo, kPBContainerChecksumLen))
FrameActual(e) == Crc32c(Slice(file, e.from, kFixed32Len + FrameSize(e).lo))

\* The call read the length, the payload and the checksum: it left the
\* cursor after the whole frame.
AllRead(e) ==
    /\ e.from + kFixed32Len <= Len(file)
    /\ FrameSize(e).hi = 0
    /\ e.off = e.from + kFixed32Len + FrameSize(e).lo + kPBContainerChecksumLen

C17_ChecksumBeforeDecode ==
    \A i \in 1..Len(reads) :
        LET e == reads[i]
        IN  /\ e.decoded => AllRead(e) /\ FrameActual(e) = FrameStored(e)
            /\ e.st = "OK" =>
                  /\ e.decoded
                  /\ Parse(FramePayload(e)).ok
                  /\ e.msg = Parse(FramePayload(e)).msg
            /\ ~e.decoded => e.msg = SinkBefore(i)
            /\ (AllRead(e) /\ FrameActual(e) # FrameStored(e)) =>
                  e.st = "Corruption" /\ ~e.decoded
            /\ (AllRead(e) /\ FrameActual(e) = FrameStored(e) /\ ~Parse(FramePayload(e)).ok) =>
                  e.st = "IOError" /\ e.decoded

\* A frame whose checksum matches and whose payload does not decode was
\* read: IOError.
C17_Witness ==
    /\ file = InitBuf(kMagic) \o UndecodableRecord
    /\ Len(reads) = 1
    /\ reads[1].from = kPBContainerHeaderLen
    /\ reads[1].st = "IOError" /\ reads[1].decoded

\* A frame whose checksum does not match was read: Corruption, no decoding.
C17_WitnessMismatch ==
    /\ file = InitBuf(kMagic) \o MismatchedRecord
    /\ Len(reads) = 1
    /\ reads[1].from = kPBContainerHeaderLen
    /\ AllRead(reads[1])
    /\ reads[1].st = "Corruption" /\ ~reads[1].decoded /\ reads[1].msg = EmptyMsg

(***************************************************************************)
(* C18.  Close is terminal.  A writer that was closed when a call entered  *)
(* is closed after it; an Init, Append, Flush or Sync that finds the       *)
(* writer closed is rejected and does not reach the stream; a ReadNextPB   *)
(* on a reader that was closed returns no record.                          *)
(***************************************************************************)
GuardedOps == {"Init", "Append", "Flush", "Sync"}

C18_CloseTerminal ==
    /\ w_ret.closed => closed_
    /\ (w_ret.closed /\ w_ret.op \in GuardedOps) => w_ret.st = "Abort"
    /\ (reader_ = "null" /\ r_ret.op = "ReadNextPB") => r_ret.st \notin {"OK"}

(***************************************************************************)
(* C19.  The reader never calls Read on a range that ends past the file    *)
(* size it has just queried.  A frame whose length field exceeds the       *)
(* bytes left in the file is rejected by the size check: Corruption, no    *)
(* Read of the payload, nothing read after it, and the cursor left just    *)
(* after the 4-byte length field.                                          *)
(***************************************************************************)
Overruns(c) == c.len.hi > 0 \/ c.at + c.len.lo > c.size

C19_NoReadPastSize ==
    \A i \in 1..Len(vr_log) :
        LET c == vr_log[i]
        IN  /\ c.read => ~Overruns(c)
            /\ (c.what = "body" /\ Overruns(c)) =>
                  /\ c.st = "Corruption" /\ ~c.read
                  /\ i = Len(vr_log)
                  /\ reads[Len(reads)].st = "Corruption"
                  /\ vr_log[i - 1].what = "size" /\ vr_log[i - 1].st = "OK"
                  /\ offset_ = vr_log[i - 1].at + kFixed32Len

\* A flipped high bit made the length field larger than any file: the
\* payload read was refused by the size check.
C19_Witness ==
    /\ tamper.kind = "flip"
    /\ vr_log # << >>
    /\ LET c == vr_log[Len(vr_log)]
       IN  c.what = "body" /\ c.len.hi > 0 /\ c.st = "Corruption" /\ ~c.read

\* A flipped low bit made the length field a few bytes larger than what is
\* left of the file.
C19_WitnessSmall ==
    /\ tamper.kind = "flip"
    /\ vr_log # << >>
    /\ LET c == vr_log[Len(vr_log)]
       IN  /\ c.what = "body" /\ c.len.hi = 0 /\ c.len.lo <= c.size
           /\ c.at + c.len.lo > c.size
           /\ c.st = "Corruption" /\ ~c.read

(***************************************************************************)
(* The path-level claims, over SpecPath.                                   *)
(***************************************************************************)
\* The complete content of one whole write.
Expected(kind, msg) ==
    IF kind = RAW THEN Serialize(msg) ELSE ContainerOf(kMagic, << msg >>)

\* Expected, tabulated for the messages the calls write.
ExpectedOf == [kind \in Kinds, msg \in Messages |-> Expected(kind, msg)]

WholeWrite(h) == ifile[h] = ExpectedOf[wp[h].kind, wp[h].msg]

Started(w) == wp[w].pc # "idle"
Finished(w) == wp[w].pc = "done"

\* The read returned, nothing it called failed, and it read the file that
\* write rp.h renamed to the path with the function of the same format.
ReadBack ==
    /\ rp.pc = "done"
    /\ ~rp.failed
    /\ rp.h # 0
    /\ rp.kind = wp[rp.h].kind

\* C2: a path-level read that follows a path-level write of message m in
\* the same format (raw or container), SYNC or NO_SYNC, returns OK with a
\* message equal to m.
C2_PathRoundTrip ==
    ReadBack => rp.st = "OK" /\ rp.msg = wp[rp.h].msg

\* A container write in SYNC mode returned OK and was read back.
C2_Witness ==
    /\ ReadBack
    /\ wp[rp.h].kind = CONTAINER /\ wp[rp.h].sync /\ wp[rp.h].st = "OK"
    /\ rp.st = "OK" /\ rp.msg = MsgOf(200)

\* A raw write in NO_SYNC mode returned OK and was read back.
C2_WitnessRaw ==
    /\ ReadBack
    /\ wp[rp.h].kind = RAW /\ ~wp[rp.h].sync /\ wp[rp.h].st = "OK"
    /\ rp.st = "OK" /\ rp.msg = MsgOf(1)

\* C6: while a write has not renamed its temp file, and no other call has
\* renamed one since it started, the target path holds exactly what it
\* held when the call started; a call that fails before its rename never
\* renames, and returns an error.
C6_Atomicity ==
    \A w \in Writers :
        /\ (Started(w) /\ ~wp[w].renamed /\ renames = wp[w].rn0) => TargetView = wp[w].pre
        /\ wp[w].pc = "cleanup" => ~wp[w].renamed /\ wp[w].st # "OK"
        /\ (Finished(w) /\ ~wp[w].renamed) => wp[w].st # "OK"

\* Call 2 found call 1's content at the path, wrote to its temp file, failed
\* before the rename and returned, and the path still holds call 1's content.
C6_Witness ==
    /\ Finished(2) /\ ~wp[2].renamed /\ wp[2].st = "IOError"
    /\ Len(wp[2].ev) >= 3
    /\ wp[2].pre.ino = 1 /\ wp[2].pre.bytes # << >>
    /\ TargetView = wp[2].pre

\* C7: in every state the target path is absent or holds the complete
\* content of exactly one whole write, and the file a reader has open is
\* the complete content of one whole write for as long as it is open.
C7_NoTornFile ==
    /\ names[kTarget] # 0 => WholeWrite(names[kTarget])
    /\ rp.h # 0 => WholeWrite(rp.h)

\* The reader is in the middle of a file that a later write has replaced
\* at the path.
C7_Witness ==
    /\ rp.pc \in {"init", "read", "parse"}
    /\ rp.h # 0
    /\ names[kTarget] \notin {0, rp.h}

\* C8: two concurrent writes use distinct temp files, each its own, and
\* once both have finished the target path holds the complete content of
\* the write whose rename happened last.
C8_LastRenameWins ==
    /\ \A w \in Writers :
          (wp[w].armed /\ ~Finished(w)) => names[wp[w].tmp_path] = w
    /\ ((\A w \in Writers : Finished(w)) /\ lastRename # 0) =>
          names[kTarget] = lastRename /\ WholeWrite(lastRename)

\* Both writes returned OK; call 1 renamed last and the path holds its
\* content, which differs from call 2's.
C8_Witness ==
    /\ \A w \in Writers : Finished(w) /\ wp[w].st = "OK"
    /\ lastRename = 1
    /\ names[kTarget] = 1
    /\ ifile[1] # ifile[2]

\* The file system calls of a write that returns OK, in order: one write
\* for the serialized message, two (header, record) for a container.
Writes(kind) == IF kind = RAW THEN << "write" >> ELSE << "write", "write" >>

DurableOrder(kind) ==
    << "create" >> \o Writes(kind) \o << "sync", "close", "rename", "syncdir" >>
PlainOrder(kind) == << "create" >> \o Writes(kind) \o << "close", "rename" >>

\* C11: a path-level write that returns OK made its file system calls in
\* the order: the writes to the temp file, its Sync, its Close, the Rename
\* onto the target, the SyncDir of the parent, when SYNC was asked; and the
\* writes, the Close, the Rename, with no Sync and no SyncDir, when NO_SYNC.
C11_StepOrder ==
    \A w \in Writers :
        (Finished(w) /\ wp[w].st = "OK") =>
            wp[w].ev = IF wp[w].sync THEN DurableOrder(wp[w].kind)
                       ELSE PlainOrder(wp[w].kind)

\* A container write in SYNC mode returned OK.
C11_Witness ==
    /\ Finished(1) /\ wp[1].st = "OK"
    /\ wp[1].sync /\ wp[1].kind = CONTAINER
    /\ Len(wp[1].ev) = 7

\* NewTempWritableFile returned a temp file to call w.
Created(w) == wp[w].ev # << >>
Deletes == {"delete", "delete_failed"}
DeleteIssued(w) == \E i \in 1..Len(wp[w].ev) : wp[w].ev[i] \in Deletes
Linked(w) == \E n \in Names : names[n] = w

\* C12: a call that created its temp file and returned without a successful
\* rename issued the delete of its temp file as its last file system call,
\* and the temp file is gone unless that delete itself failed; the deleter
\* is armed from the creation until the rename succeeds and never after, and
\* a call whose rename succeeded issues no delete, also when its SyncDir
\* fails.
C12_TempCleanup ==
    \A w \in Writers :
        /\ (Created(w) /\ ~wp[w].renamed /\ ~Finished(w)) => wp[w].armed
        /\ wp[w].renamed => ~wp[w].armed /\ ~DeleteIssued(w)
        /\ (Finished(w) /\ Created(w) /\ ~wp[w].renamed) =>
              /\ wp[w].ev[Len(wp[w].ev)] \in Deletes
              /\ wp[w].ev[Len(wp[w].ev)] = "delete" => ~Linked(w)

\* Call 1 wrote and closed its temp file, its rename failed, and by its
\* return the temp file is deleted.
C12_Witness ==
    /\ Finished(1) /\ ~wp[1].renamed /\ wp[1].st = "IOError"
    /\ Len(wp[1].ev) >= 5
    /\ wp[1].ev[Len(wp[1].ev) - 1] = "rename"
    /\ wp[1].ev[Len(wp[1].ev)] = "delete"
    /\ ~Linked(1)

\* Call 1's rename succeeded and its SyncDir failed: no delete was issued
\* and its file is at the target.
C12_WitnessSyncDir ==
    /\ Finished(1) /\ wp[1].renamed /\ wp[1].st = "IOError"
    /\ names[kTarget] = 1
    /\ ~DeleteIssued(1)

\* No call but w has renamed since call w started.
Undisturbed(w) == renames = wp[w].rn0 + (IF wp[w].renamed THEN 1 ELSE 0)

\* C20: once a path-level write has returned, OK or not, and no other call
\* has renamed meanwhile, the target holds exactly its pre-call content or
\* the complete new content, the new content if and only if the call's
\* rename succeeded.  A call that returns OK has renamed; a call that
\* returns an error after its rename failed in the directory sync, and
\* its content is at the target.
C20_ReturnState ==
    \A w \in Writers :
        Finished(w) =>
            /\ wp[w].st = "OK" => wp[w].renamed
            /\ names[kTarget] = w => wp[w].renamed /\ WholeWrite(w)
            /\ Undisturbed(w) =>
                  IF wp[w].renamed
                  THEN names[kTarget] = w /\ WholeWrite(w)
                  ELSE TargetView = wp[w].pre
            /\ (wp[w].renamed /\ wp[w].st # "OK") =>
                  wp[w].sync /\ wp[w].ev[Len(wp[w].ev)] = "syncdir"

\* Call 2 replaced call 1's content, its directory sync failed, it returned
\* the error, and its complete content is at the target.
C20_Witness ==
    /\ Finished(2) /\ wp[2].st = "IOError" /\ wp[2].renamed
    /\ wp[2].pre.ino = 1
    /\ Undisturbed(2)
    /\ TargetView = [ino |-> 2, bytes |-> ExpectedOf[wp[2].kind, wp[2].msg]]

====
